---- MODULE Spec2Model ----
(***************************************************************************)
(* Asynchronous translation agent: a gateway (translation_agent_azure.py)  *)
(* that enqueues job payloads on the jobs queue and answers status queries *)
(* from the result store, and a worker (translation_worker_azure.py) that  *)
(* leases one job at a time, translates it, writes the result blob, sends  *)
(* the result to the results queue and deletes the job message.            *)
(***************************************************************************)
EXTENDS Integers, Sequences, FiniteSets, Bags, TLC

\* ------------------------------------------------------------------ bounds
\* Messages ever put on the jobs queue in one behaviour.
MaxMsgs == 2
\* Times receive_messages hands out a message in one behaviour.
MaxDeliveries == 2

\* --------------------------------------------------------- program values
Workers == {"w1", "w2"}
TaskIds == {"t1", "t2"}
Texts == {"hello"}
None == "none"

\* Keys of a job payload object.
Keys == {"task_id", "document_content", "target_language"}

\* Two message/send requests the gateway handles at the same time, and the
\* uuid4 each draws as task id.
Requests == {"r1", "r2"}
task_id_of(r) == IF r = "r1" THEN "t1" ELSE "t2"

VARIABLES
    jobsQueueExists,  \* the translation-jobs queue has been created
    msgs,             \* every message ever put on the jobs queue, by message id
    blobs,            \* result store: task id -> result record, or NoBlob
    results,          \* messages sent to the translation-results queue
    pc,               \* worker -> position in start_worker / process_queue_message
    held,             \* worker -> id of the message it received (0: none)
    resp,             \* the gateway's response on its way to the caller
    seen,             \* task id -> the terminal state a caller has been shown
    shown,            \* task id -> the contextId message/send gave the caller
    req               \* request -> position of a message/send in its enqueue

vars == <<jobsQueueExists, msgs, blobs, results, pc, held, resp, seen, shown, req>>

NoBlob == [status |-> None]

\* A response of the gateway: the operation, what came back ("task", "error",
\* or the HTTP status of a legacy endpoint), the task id, state and artifact
\* text it carries, the exception an error response reports, and the
\* contextId and artifacts list of a Task.
Resp(op, kind, id, state, artifact, error) ==
    [op |-> op, kind |-> kind, id |-> id, state |-> state, artifact |-> artifact,
     error |-> error, context |-> None, artifacts |-> <<>>]
NoResp == Resp(None, None, None, None, None, None)

\* ------------------------------------------------------------ job payloads
\* A gateway that draws a second id for the payload: the job does not carry
\* the id the caller is given.
task_payload_other_id(task_id, document_content, target_language) ==
    [json |-> TRUE, keys |-> Keys,
     task_id |-> CHOOSE t \in TaskIds : t # task_id,
     document_content |-> document_content, target_language |-> target_language]

\* json.dumps(task_payload) of the gateway: a JSON object with the three keys.
task_payload(task_id, document_content, target_language) ==
    [json |-> TRUE, keys |-> Keys, task_id |-> task_id,
     document_content |-> document_content, target_language |-> target_language]

\* Contents no gateway produces: text that is no JSON, and JSON objects that
\* lack a key the worker reads.
ForeignContents ==
    { [json |-> FALSE, keys |-> {}, task_id |-> None,
       document_content |-> None, target_language |-> None],
      [json |-> TRUE, keys |-> Keys \ {"task_id"}, task_id |-> None,
       document_content |-> "hello", target_language |-> "el"],
      [json |-> TRUE, keys |-> Keys \ {"document_content"}, task_id |-> "t1",
       document_content |-> None, target_language |-> "el"] }

\* What lines 104-107 of the worker do with a message content:
\* "decode_error" (json.loads raises JSONDecodeError), "key_error" (a
\* subscript raises KeyError) or "ok".
parse_task_data(content) ==
    IF ~content.json THEN "decode_error"
    ELSE IF "task_id" \notin content.keys THEN "key_error"
    ELSE IF "document_content" \notin content.keys THEN "key_error"
    ELSE IF "target_language" \notin content.keys THEN "key_error"
    ELSE "ok"

\* The translation provider, a function of the text and the target language.
translate_text_with_azure(text, target_language) ==
    [text |-> text, to |-> target_language]

\* result_payload of the worker.
\* A worker that records a job as failed.
result_payload_failed(content) ==
    [task_id |-> content.task_id, status |-> "failed",
     artifact_content |->
        translate_text_with_azure(content.document_content, content.target_language)]

result_payload(content) ==
    [task_id |-> content.task_id, status |-> "completed",
     artifact_content |->
        translate_text_with_azure(content.document_content, content.target_language)]

\* ---------------------------------------------------------------- the queue
MsgIds == 1..Len(msgs)
InQueue(i) == i \in MsgIds /\ msgs[i].st # "deleted"
Visible(i) == i \in MsgIds /\ msgs[i].st = "visible"

NewMessage(content) == [content |-> content, st |-> "visible", dq |-> 0, holder |-> None]

\* send_message retried after a lost acknowledgement: the content is put twice.
send_message_twice(content) ==
    Append(Append(msgs, NewMessage(content)), NewMessage(content))

\* queue_client.send_message(content): a new visible message.
send_message(content) ==
    Append(msgs, NewMessage(content))

\* The pop receipt worker w got for message i is still the latest one.
ReceiptValid(w, i) == InQueue(i) /\ msgs[i].holder = w

Init ==
    /\ jobsQueueExists = FALSE
    /\ msgs = <<>>
    /\ blobs = [t \in TaskIds |-> NoBlob]
    /\ results = EmptyBag
    /\ pc = [w \in Workers |-> IF w = "w1" THEN "start" ELSE "off"]
    /\ held = [w \in Workers |-> 0]
    /\ resp = NoResp
    /\ seen = [t \in TaskIds |-> None]
    /\ shown = [t \in TaskIds |-> None]
    /\ req = [r \in Requests |-> "idle"]

\* A step of the worker or of the queue: no response is on its way (a handler
\* and the delivery of its response are not interleaved with other steps),
\* and the caller learns nothing.
Quiet == resp = NoResp /\ UNCHANGED <<resp, seen, shown, req>>

\* ------------------------------------------------------------- the worker
SetPc(w, p) == pc' = [pc EXCEPT ![w] = p]
\* process_queue_message returned (or its handler logged the error): the
\* loop of start_worker goes on with the next receive.
BackToPoll(w) == pc' = [pc EXCEPT ![w] = "poll"] /\ held' = [held EXCEPT ![w] = 0]
\* An exception reached the loop of start_worker: log, sleep, go on.
LoopError(w) == pc' = [pc EXCEPT ![w] = "sleep"] /\ held' = [held EXCEPT ![w] = 0]

StartFaults == {"none", "client", "create_queue", "get_queue_properties"}

\* start_worker up to the processing loop. Only a failure to build the
\* client or to ensure the jobs queue makes it return.
start_worker(w, fault) ==
    /\ Quiet
    /\ pc[w] = "start"
    /\ IF fault \in {"client", "create_queue"}
       THEN /\ SetPc(w, "stopped")
            /\ UNCHANGED jobsQueueExists
       ELSE /\ SetPc(w, "poll")
            /\ jobsQueueExists' = TRUE
    /\ UNCHANGED <<msgs, blobs, results, held>>

RECURSIVE Deliveries(_)
Deliveries(n) == IF n = 0 THEN 0 ELSE msgs[n].dq + Deliveries(n - 1)

Deliverable(i) == Visible(i) /\ Deliveries(Len(msgs)) < MaxDeliveries

\* receive_messages without a visibility timeout: the message handed out
\* stays visible.
Receive_stays_visible(w, i) ==
    /\ Quiet
    /\ pc[w] = "poll"
    /\ jobsQueueExists
    /\ Visible(i)
    /\ msgs' = [msgs EXCEPT ![i].dq = @ + 1, ![i].holder = w]
    /\ held' = [held EXCEPT ![w] = i]
    /\ SetPc(w, "parse")
    /\ UNCHANGED <<jobsQueueExists, blobs, results>>

\* receive_messages with a page of two: a second visible message is leased
\* along with the one the loop processes.
Receive_page_of_two(w, i) ==
    /\ Quiet
    /\ pc[w] = "poll"
    /\ jobsQueueExists
    /\ Visible(i)
    /\ msgs' = [j \in MsgIds |->
                  IF j = i \/ Visible(j)
                  THEN [msgs[j] EXCEPT !.st = "leased", !.dq = @ + 1, !.holder = w]
                  ELSE msgs[j]]
    /\ held' = [held EXCEPT ![w] = i]
    /\ SetPc(w, "parse")
    /\ UNCHANGED <<jobsQueueExists, blobs, results>>

\* receive_messages(messages_per_page=1, visibility_timeout=...) hands out one
\* visible message, hides it and gives the worker a new pop receipt.
Receive(w, i) ==
    /\ Quiet
    /\ pc[w] = "poll"
    /\ jobsQueueExists
    /\ Visible(i)
    /\ msgs' = [msgs EXCEPT ![i].st = "leased", ![i].dq = @ + 1, ![i].holder = w]
    /\ held' = [held EXCEPT ![w] = i]
    /\ SetPc(w, "parse")
    /\ UNCHANGED <<jobsQueueExists, blobs, results>>

receive_messages(w, i) == Deliverable(i) /\ Receive(w, i)

\* No message came back: sleep POLL_INTERVAL_SECONDS.
NoMessage(w, nothing) ==
    /\ Quiet
    /\ pc[w] = "poll"
    /\ nothing
    /\ SetPc(w, "sleep")
    /\ UNCHANGED <<jobsQueueExists, msgs, blobs, results, held>>

poll_empty(w) == NoMessage(w, ~ \E i \in MsgIds : Deliverable(i))

\* A loop without the handler of line 236: an exception of receive_messages
\* ends start_worker.
receive_fails_stops(w) ==
    /\ Quiet
    /\ pc[w] = "poll"
    /\ SetPc(w, "stopped")
    /\ UNCHANGED <<jobsQueueExists, msgs, blobs, results, held>>

\* receive_messages raised: the loop logs and sleeps.
receive_fails(w) ==
    /\ Quiet
    /\ pc[w] = "poll"
    /\ LoopError(w)
    /\ UNCHANGED <<jobsQueueExists, msgs, blobs, results>>

wake(w) ==
    /\ Quiet
    /\ pc[w] = "sleep"
    /\ SetPc(w, "poll")
    /\ UNCHANGED <<jobsQueueExists, msgs, blobs, results, held>>

\* A worker whose JSONDecodeError handler only logs: the message is left on
\* the queue.
json_loads_keeps_malformed(w) ==
    /\ Quiet
    /\ pc[w] = "parse"
    /\ LET r == parse_task_data(msgs[held[w]].content) IN
          CASE r = "ok" -> SetPc(w, "translate") /\ UNCHANGED held
            [] OTHER -> BackToPoll(w)
    /\ UNCHANGED <<jobsQueueExists, msgs, blobs, results>>

\* A worker with an idempotence check: a job whose task already has its
\* record is deleted without being processed again.
json_loads_skips_done(w) ==
    /\ Quiet
    /\ pc[w] = "parse"
    /\ LET r == parse_task_data(msgs[held[w]].content) IN
          CASE r = "ok" ->
                  /\ SetPc(w, IF blobs[msgs[held[w]].content.task_id] = NoBlob
                              THEN "translate" ELSE "delete")
                  /\ UNCHANGED held
            [] r = "decode_error" -> SetPc(w, "delete_malformed") /\ UNCHANGED held
            [] OTHER -> BackToPoll(w)
    /\ UNCHANGED <<jobsQueueExists, msgs, blobs, results>>

\* Lines 104-107: json.loads and the three subscripts.
json_loads(w) ==
    /\ Quiet
    /\ pc[w] = "parse"
    /\ LET r == parse_task_data(msgs[held[w]].content) IN
          CASE r = "ok" -> SetPc(w, "translate") /\ UNCHANGED held
            [] r = "decode_error" -> SetPc(w, "delete_malformed") /\ UNCHANGED held
            [] OTHER -> BackToPoll(w)
    /\ UNCHANGED <<jobsQueueExists, msgs, blobs, results>>

\* How the provider call of line 112 ends: it returns the translation, it
\* raises some exception, or the provider's answer is no JSON and
\* translator_request.json() (line 90) raises the JSONDecodeError of requests,
\* a subclass of json.JSONDecodeError unless simplejson is installed.
ProviderOutcomes == {"ok", "error", "bad_json"}

\* Line 112: the provider call. An exception goes to the handler of line 153
\* (log, next poll), a json.JSONDecodeError to the handler of line 148, which
\* deletes the message.
translate(w, outcome) ==
    /\ Quiet
    /\ pc[w] = "translate"
    /\ CASE outcome = "ok" -> SetPc(w, "upload") /\ UNCHANGED held
         [] outcome = "bad_json" -> SetPc(w, "delete_malformed") /\ UNCHANGED held
         [] OTHER -> BackToPoll(w)
    /\ UNCHANGED <<jobsQueueExists, msgs, blobs, results>>

\* upload_blob without overwrite=True: the upload of a blob that is there
\* raises ResourceExistsError and the old record stays.
upload_blob_no_overwrite(w, ok) ==
    /\ Quiet
    /\ pc[w] = "upload"
    /\ LET r == result_payload(msgs[held[w]].content) IN
          IF ok /\ blobs[r.task_id] = NoBlob
          THEN /\ blobs' = [blobs EXCEPT ![r.task_id] = r]
               /\ SetPc(w, "send_result")
               /\ UNCHANGED held
          ELSE BackToPoll(w) /\ UNCHANGED blobs
    /\ UNCHANGED <<jobsQueueExists, msgs, results>>

\* A worker that names the blob after an id of its own instead of the
\* payload's task_id.
upload_blob_own_id(w, ok) ==
    /\ Quiet
    /\ pc[w] = "upload"
    /\ IF ok
       THEN LET r == result_payload(msgs[held[w]].content) IN
            /\ blobs' = [blobs EXCEPT ![CHOOSE t \in TaskIds : t # r.task_id] = r]
            /\ SetPc(w, "send_result")
            /\ UNCHANGED held
       ELSE BackToPoll(w) /\ UNCHANGED blobs
    /\ UNCHANGED <<jobsQueueExists, msgs, results>>

\* Lines 123-132: upload_blob(result_json, overwrite=True), or a failure of
\* the store before anything is written.
upload_blob(w, ok) ==
    /\ Quiet
    /\ pc[w] = "upload"
    /\ IF ok
       THEN LET r == result_payload(msgs[held[w]].content) IN
            /\ blobs' = [blobs EXCEPT ![r.task_id] = r]
            /\ SetPc(w, "send_result")
            /\ UNCHANGED held
       ELSE BackToPoll(w) /\ UNCHANGED blobs
    /\ UNCHANGED <<jobsQueueExists, msgs, results>>

\* A worker that goes on to the delete without the result having reached the
\* translation-results queue.
send_result_lost(w, ok) ==
    /\ Quiet
    /\ pc[w] = "send_result"
    /\ SetPc(w, "delete")
    /\ UNCHANGED <<jobsQueueExists, msgs, blobs, results, held>>

\* Lines 135-141: the result goes to the translation-results queue.
send_result(w, ok) ==
    /\ Quiet
    /\ pc[w] = "send_result"
    /\ IF ok
       THEN /\ results' = results (+) SetToBag({result_payload(msgs[held[w]].content)})
            /\ SetPc(w, "delete")
            /\ UNCHANGED held
       ELSE BackToPoll(w) /\ UNCHANGED results
    /\ UNCHANGED <<jobsQueueExists, msgs, blobs>>

\* queue_client.delete_message(message.id, message.pop_receipt): removes the
\* message when the receipt is the latest one, raises otherwise.
Deleted(w, ok) ==
    IF ok /\ ReceiptValid(w, held[w])
    THEN [msgs EXCEPT ![held[w]].st = "deleted"]
    ELSE msgs

\* Line 144: the delete of the success path; a failure is logged by the
\* handler of line 153.
delete_message(w, ok) ==
    /\ Quiet
    /\ pc[w] = "delete"
    /\ msgs' = Deleted(w, ok)
    /\ BackToPoll(w)
    /\ UNCHANGED <<jobsQueueExists, blobs, results>>

\* Line 151: the delete of the JSONDecodeError handler; a failure leaves
\* process_queue_message and is caught by the loop.
delete_malformed(w, ok) ==
    /\ Quiet
    /\ pc[w] = "delete_malformed"
    /\ msgs' = Deleted(w, ok)
    /\ IF ok /\ ReceiptValid(w, held[w]) THEN BackToPoll(w) ELSE LoopError(w)
    /\ UNCHANGED <<jobsQueueExists, blobs, results>>

\* A lease that never runs out: the received message stays hidden.
lease_never_expires(i) ==
    /\ Quiet
    /\ i \in MsgIds
    /\ msgs[i].st = "leased"
    /\ UNCHANGED <<jobsQueueExists, msgs, blobs, results, pc, held>>

\* The visibility timeout of a received message runs out.
lease_expires(i) ==
    /\ Quiet
    /\ i \in MsgIds
    /\ msgs[i].st = "leased"
    /\ msgs' = [msgs EXCEPT ![i].st = "visible"]
    /\ UNCHANGED <<jobsQueueExists, blobs, results, pc, held>>

\* The worker process dies between two steps and is started again.
crash(w) ==
    /\ Quiet
    /\ pc[w] \in {"parse", "translate", "upload", "send_result", "delete",
                  "delete_malformed"}
    /\ pc' = [pc EXCEPT ![w] = "start"]
    /\ held' = [held EXCEPT ![w] = 0]
    /\ UNCHANGED <<jobsQueueExists, msgs, blobs, results>>

\* Another producer puts a content on the jobs queue that no gateway writes.
foreign_send(content) ==
    /\ Quiet
    /\ jobsQueueExists
    /\ Len(msgs) < MaxMsgs
    /\ content \in ForeignContents
    /\ msgs' = send_message(content)
    /\ UNCHANGED <<jobsQueueExists, blobs, results, pc, held>>

\* ------------------------------------------------------------- the gateway
\* Python's "not x" for the values a text field takes: None and "".
Falsy(x) == x \in {None, ""}

\* Where the enqueue of a submission can fail: in ensure_queue_exists
\* (client, get_queue_properties/create_queue) or in send_message.
Faults == {"none", "ensure", "send"}

\* uuid.uuid4(): an id that no job and no result carries yet and that no
\* caller has been shown.
FreshId(id) ==
    /\ id \in TaskIds
    /\ \A i \in MsgIds : msgs[i].content.task_id # id
    /\ blobs[id] = NoBlob
    /\ seen[id] = None

\* The values uuid4 draws for the contextId of a Task.
ContextIds == {"c1", "c2", "c3"}

\* str(uuid.uuid4()) of line 52: a value no caller holds.
uuid4_context == CHOOSE c \in ContextIds : \A t \in TaskIds : shown[t] # c

\* create_a2a_task: the Task object with the contextId it draws, without its
\* timestamp, history and metadata.
create_a2a_task(task_id, status_state) ==
    [id |-> task_id, contextId |-> uuid4_context, state |-> status_state,
     artifacts |-> <<>>]

TaskResp(op, task) ==
    [Resp(op, "task", task.id, task.state,
          IF task.artifacts = <<>> THEN None ELSE task.artifacts[1], None)
       EXCEPT !.context = task.contextId, !.artifacts = task.artifacts]

\* Enqueue with a send_message that stores the message and then fails.
Enqueue_stored_then_failed(content, fault) ==
    /\ jobsQueueExists' = (jobsQueueExists \/ fault # "ensure")
    /\ IF fault # "ensure"
       THEN Len(msgs) < MaxMsgs /\ msgs' = send_message(content)
       ELSE UNCHANGED msgs

\* Lines 139-149 / 240-249: ensure_queue_exists, then send_message. The
\* queue is created by ensure_queue_exists when it is not there.
Enqueue(content, fault) ==
    /\ jobsQueueExists' = (jobsQueueExists \/ fault # "ensure")
    /\ IF fault = "none"
       THEN Len(msgs) < MaxMsgs /\ msgs' = send_message(content)
       ELSE UNCHANGED msgs

\* message/send that returns its Task whether or not the enqueue succeeded.
message_send_no_raise(text_content, target_language, task_id, fault) ==
    /\ resp = NoResp
    /\ IF Falsy(text_content)
       THEN /\ resp' = Resp("message_send", "error", None, None, None, "ValueError")
            /\ UNCHANGED <<jobsQueueExists, msgs>>
       ELSE /\ FreshId(task_id)
            /\ Enqueue(task_payload(task_id, text_content,
                          IF target_language = None THEN "en" ELSE target_language), fault)
            /\ resp' = TaskResp("message_send", create_a2a_task(task_id, "working"))
    /\ UNCHANGED <<blobs, results, pc, held, seen, shown, req>>

\* message/send. text_content and target_language are what the loop over
\* the parts of the message leaves in the two locals.
message_send(text_content, target_language, task_id, fault) ==
    /\ resp = NoResp
    /\ IF Falsy(text_content)
       THEN /\ resp' = Resp("message_send", "error", None, None, None, "ValueError")
            /\ UNCHANGED <<jobsQueueExists, msgs>>
       ELSE /\ FreshId(task_id)
            /\ Enqueue(task_payload(task_id, text_content,
                          IF target_language = None THEN "en" ELSE target_language), fault)
            /\ resp' = IF fault = "none"
                       THEN TaskResp("message_send", create_a2a_task(task_id, "working"))
                       ELSE Resp("message_send", "error", None, None, None, "queue")
    /\ UNCHANGED <<blobs, results, pc, held, seen, shown, req>>

\* message/send with a text part, step by step through ensure_queue_exists
\* (lines 78-94) and send_message (line 149), for requests handled at the same
\* time. Lines 118-137: the request is taken up.
begin_message_send(r) ==
    /\ req[r] = "idle"
    /\ req' = [req EXCEPT ![r] = "check"]
    /\ UNCHANGED <<jobsQueueExists, msgs, blobs, results, pc, held, resp, seen, shown>>

\* Lines 84-87: get_queue_properties returns when the queue is there and
\* raises when it is not.
get_queue_properties(r) ==
    /\ req[r] = "check"
    /\ req' = [req EXCEPT ![r] = IF jobsQueueExists THEN "send" ELSE "create"]
    /\ UNCHANGED <<jobsQueueExists, msgs, blobs, results, pc, held, resp, seen, shown>>

\* What create_queue does on a queue that is there: the service answers 204
\* (same metadata) and the call returns, or the call raises
\* ResourceExistsError as the SDK documents and the worker's
\* ensure_queue_exists expects.
CreateOutcomes == {"returns", "ResourceExistsError"}

\* Line 89: create_queue, outside any handler for ResourceExistsError: the
\* exception leaves ensure_queue_exists (line 94) and message_send (line 161).
create_queue(r, on_existing) ==
    /\ req[r] = "create"
    /\ jobsQueueExists' = TRUE
    /\ req' = [req EXCEPT ![r] =
                 IF jobsQueueExists /\ on_existing = "ResourceExistsError"
                 THEN "failed" ELSE "send"]
    /\ UNCHANGED <<msgs, blobs, results, pc, held, resp, seen, shown>>

\* Lines 141-157: the payload is sent and the Task returned.
send_payload(r) ==
    /\ req[r] = "send"
    /\ Len(msgs) < MaxMsgs
    /\ msgs' = send_message(task_payload(task_id_of(r), "hello", "en"))
    /\ req' = [req EXCEPT ![r] = "accepted"]
    /\ UNCHANGED <<jobsQueueExists, blobs, results, pc, held, resp, seen, shown>>

\* The JSON bodies POST /execute_task is given: an object whose "parts" and
\* "envelope" are objects or absent, or one of the shapes on which a .get of
\* lines 230-233 raises.
LegacyShapes == {"object", "parts_not_object", "envelope_not_object", "body_not_object"}

\* POST /execute_task.
execute_task_legacy(shape, document_content, supplied_id, target_language, uuid, fault) ==
    /\ resp = NoResp
    /\ IF shape # "object"
       THEN /\ resp' = Resp("execute_task", "http500", None, "failed", None,
                            "AttributeError")
            /\ UNCHANGED <<jobsQueueExists, msgs>>
       ELSE IF Falsy(document_content)
       THEN /\ resp' = Resp("execute_task", "http400", None, "failed", None,
                            "document_content is required")
            /\ UNCHANGED <<jobsQueueExists, msgs>>
       ELSE LET task_id == IF supplied_id = None THEN uuid ELSE supplied_id IN
            /\ supplied_id = None => FreshId(uuid)
            /\ Enqueue(task_payload(task_id, document_content,
                          IF target_language = None THEN "el" ELSE target_language), fault)
            /\ resp' = IF fault = "none"
                       THEN Resp("execute_task", "http202", task_id, "pending", None, None)
                       ELSE Resp("execute_task", "http500", None, "failed", None, "queue")
    /\ UNCHANGED <<blobs, results, pc, held, seen, shown, req>>

\* How the read of a result blob can fail: get_blob_service_client raises, or
\* download_blob raises although the blob may be there.
ReadFaults == {"none", "client", "download"}

\* The inner try of lines 172-208 / 274-293 reaches its result branch: the
\* blob is there and the download did not raise.
Downloaded(store, id, fault) == fault = "none" /\ store[id] # NoBlob

\* tasks/get that reports a task as working as long as one of its messages is
\* on the jobs queue.
tasks_get_view_while_queued(store, id, fault) ==
    IF ~Downloaded(store, id, fault)
          \/ \E i \in MsgIds : msgs[i].content.task_id = id /\ msgs[i].st # "deleted"
    THEN create_a2a_task(id, "working")
    ELSE [create_a2a_task(id, "completed") EXCEPT
             !.artifacts = <<store[id].artifact_content>>]

\* tasks/get that reports a record as completed without attaching its
\* artifact.
tasks_get_view_no_artifact(store, id, fault) ==
    IF ~Downloaded(store, id, fault)
    THEN create_a2a_task(id, "working")
    ELSE create_a2a_task(id, "completed")

\* tasks/get that reports a task without a record as failed.
tasks_get_view_not_found_fails(store, id, fault) ==
    IF ~Downloaded(store, id, fault)
    THEN create_a2a_task(id, "failed")
    ELSE [create_a2a_task(id, "completed") EXCEPT
             !.artifacts = <<store[id].artifact_content>>]

\* Lines 172-208: the Task tasks/get derives from the result store; any
\* exception of the download is taken for "still pending".
tasks_get_view(store, id, fault) ==
    IF ~Downloaded(store, id, fault)
    THEN create_a2a_task(id, "working")
    ELSE IF "kind" \in DOMAIN store[id] /\ store[id].kind = "task"
    THEN store[id]
    ELSE [create_a2a_task(id, "completed") EXCEPT
             !.artifacts = <<store[id].artifact_content>>]

\* GET /task_status with the test for a stored result inverted.
legacy_status_view_inverted(store, task_id, fault) ==
    IF Downloaded(store, task_id, fault)
    THEN [task_id |-> task_id, status |-> "pending", artifact_content |-> None]
    ELSE [task_id |-> task_id, status |-> "completed", artifact_content |-> None]

\* Lines 274-293: the body GET /task_status derives from the result store.
legacy_status_view(store, task_id, fault) ==
    IF ~Downloaded(store, task_id, fault)
    THEN [task_id |-> task_id, status |-> "pending", artifact_content |-> None]
    ELSE [task_id |-> task_id, status |-> "completed",
          artifact_content |-> store[task_id].artifact_content]

\* tasks/get.
tasks_get(id, fault) ==
    /\ resp = NoResp
    /\ resp' = IF fault = "client"
               THEN Resp("tasks_get", "error", None, None, None, "blob client")
               ELSE TaskResp("tasks_get", tasks_get_view(blobs, id, fault))
    /\ UNCHANGED <<jobsQueueExists, msgs, blobs, results, pc, held, seen, shown, req>>

\* tasks/cancel that takes the task's messages that are not being processed
\* off the jobs queue.
tasks_cancel_dequeues(id) ==
    /\ resp = NoResp
    /\ resp' = TaskResp("tasks_cancel", create_a2a_task(id, "cancelled"))
    /\ msgs' = [i \in MsgIds |->
                  IF msgs[i].content.task_id = id /\ msgs[i].st = "visible"
                  THEN [msgs[i] EXCEPT !.st = "deleted"]
                  ELSE msgs[i]]
    /\ UNCHANGED <<jobsQueueExists, blobs, results, pc, held, seen, shown, req>>

\* tasks/cancel that removes the task's record from the result store.
tasks_cancel_deletes_record(id) ==
    /\ resp = NoResp
    /\ resp' = TaskResp("tasks_cancel", create_a2a_task(id, "cancelled"))
    /\ blobs' = [blobs EXCEPT ![id] = NoBlob]
    /\ UNCHANGED <<jobsQueueExists, msgs, results, pc, held, seen, shown, req>>

\* tasks/cancel.
tasks_cancel(id) ==
    /\ resp = NoResp
    /\ resp' = TaskResp("tasks_cancel", create_a2a_task(id, "cancelled"))
    /\ UNCHANGED <<jobsQueueExists, msgs, blobs, results, pc, held, seen, shown, req>>

\* GET /task_status/<task_id>.
get_task_status_legacy(task_id, fault) ==
    /\ resp = NoResp
    /\ resp' = IF fault = "client"
               THEN Resp("task_status", "http500", None, "failed", None, "blob client")
               ELSE LET v == legacy_status_view(blobs, task_id, fault) IN
                    Resp("task_status", "http200", v.task_id, v.status,
                         v.artifact_content, None)
    /\ UNCHANGED <<jobsQueueExists, msgs, blobs, results, pc, held, seen, shown, req>>

TerminalStates == {"completed", "failed", "cancelled"}

\* The caller receives the response.
client_reads ==
    /\ resp # NoResp
    /\ resp' = NoResp
    /\ UNCHANGED <<jobsQueueExists, msgs, blobs, results, pc, held, seen, shown, req>>

\* The caller receives the response and keeps the first terminal state it is
\* shown for a task id and the contextId of the Task message/send returned.
client_records ==
    /\ resp # NoResp
    /\ resp' = NoResp
    /\ seen' = IF resp.kind = "task" /\ resp.state \in TerminalStates
                  /\ seen[resp.id] = None
               THEN [seen EXCEPT ![resp.id] = resp.state]
               ELSE seen
    /\ shown' = IF resp.kind = "task" /\ resp.op = "message_send"
                THEN [shown EXCEPT ![resp.id] = resp.context]
                ELSE shown
    /\ UNCHANGED <<jobsQueueExists, msgs, blobs, results, pc, held, req>>

\* --------------------------------------------------------------- behaviours
\* The calls the gateway gets: a request, the uuid4 it would draw and the
\* failure it would meet. A call that ends before the uuid or the failure
\* matters is listed once, and the callers ask for one target language.
A2ACalls ==
    [text : {None, ""}, lang : {None}, uuid : {"t1"}, fault : {"none"}]
    \cup [text : Texts, lang : {None, "en"}, uuid : TaskIds, fault : Faults]

LegacyCalls ==
    [shape : LegacyShapes \ {"object"}, doc : {None}, sid : {None}, lang : {None},
     uuid : {"t1"}, fault : {"none"}]
    \cup [shape : {"object"}, doc : {None, ""}, sid : {None}, lang : {None},
           uuid : {"t1"}, fault : {"none"}]
    \cup [shape : {"object"}, doc : Texts, sid : {None}, lang : {"en"},
           uuid : TaskIds, fault : Faults]
    \cup [shape : {"object"}, doc : Texts, sid : TaskIds, lang : {"en"},
           uuid : {"t1"}, fault : Faults]

\* The worker, from start_worker through process_queue_message.
WorkerJob ==
    \/ \E w \in Workers, f \in StartFaults : start_worker(w, f)
    \/ \E w \in Workers, i \in MsgIds : receive_messages(w, i)
    \/ \E w \in Workers : poll_empty(w)
    \/ \E w \in Workers : receive_fails(w)
    \/ \E w \in Workers : wake(w)
    \/ \E w \in Workers : json_loads(w)
    \/ \E w \in Workers, o \in ProviderOutcomes : translate(w, o)
    \/ \E w \in Workers, ok \in BOOLEAN : upload_blob(w, ok)
    \/ \E w \in Workers, ok \in BOOLEAN : send_result(w, ok)
    \/ \E w \in Workers, ok \in BOOLEAN : delete_message(w, ok)
    \/ \E w \in Workers, ok \in BOOLEAN : delete_malformed(w, ok)
    \/ \E i \in MsgIds : lease_expires(i)
    \/ \E w \in Workers : crash(w)

\* The two submission endpoints of the gateway.
Submit ==
    \/ \E c \in A2ACalls : message_send(c.text, c.lang, c.uuid, c.fault)
    \/ \E c \in LegacyCalls :
          execute_task_legacy(c.shape, c.doc, c.sid, c.lang, c.uuid, c.fault)

\* The status endpoints of the gateway.
Query ==
    \/ \E id \in TaskIds, f \in ReadFaults : tasks_get(id, f)
    \/ \E id \in TaskIds : tasks_cancel(id)
    \/ \E id \in TaskIds, f \in ReadFaults : get_task_status_legacy(id, f)

\* Submission and processing: the gateway and other producers fill the jobs
\* queue, the worker empties it.
Next ==
    \/ WorkerJob
    \/ Submit
    \/ \E c \in ForeignContents : foreign_send(c)
    \/ client_reads

Spec == Init /\ [][Next]_vars

\* Submission and processing when the gateway alone fills the jobs queue.
NextSubmit ==
    \/ WorkerJob
    \/ Submit
    \/ client_reads

SpecSubmit == Init /\ [][NextSubmit]_vars

\* The worker may drop the message it holds once more: the message has been
\* handed out fewer than MaxDeliveries times.
RetryLeft(w) == held[w] \in MsgIds /\ msgs[held[w]].dq < MaxDeliveries

\* The provider call fails and a retry is left.
translate_fails(w) == RetryLeft(w) /\ translate(w, "error")

\* The steps of worker w in which nothing but the provider fails; every
\* visible message is handed out.
RetryStep(w) ==
    \/ start_worker(w, "none")
    \/ \E i \in MsgIds : Receive(w, i)
    \/ NoMessage(w, ~ \E i \in MsgIds : Visible(i))
    \/ wake(w)
    \/ json_loads(w)
    \/ translate(w, "ok")
    \/ translate_fails(w)
    \/ upload_blob(w, TRUE)
    \/ send_result(w, TRUE)
    \/ delete_message(w, TRUE)

\* message/send with a text, whose enqueue succeeds.
SubmitA2A ==
    \E c \in A2ACalls :
        /\ c.fault = "none"
        /\ ~Falsy(c.text)
        /\ message_send(c.text, c.lang, c.uuid, c.fault)

NextRetry ==
    \/ \E w \in Workers : RetryStep(w)
    \/ \E i \in MsgIds : lease_expires(i)
    \/ SubmitA2A
    \/ client_reads

\* The worker keeps running (start_worker's loop has no exit but a failure),
\* every lease runs out and every response reaches its caller.
FairRetry ==
    /\ \A w \in Workers : WF_vars(RetryStep(w))
    /\ WF_vars(\E i \in MsgIds : lease_expires(i))
    /\ WF_vars(client_reads)

SpecRetry == Init /\ [][NextRetry]_vars /\ FairRetry

\* The send to the results queue fails and a retry is left.
send_fails(w) == RetryLeft(w) /\ send_result(w, FALSE)

\* The retrying worker, whose results-queue send can fail as well.
NextResend ==
    \/ NextRetry
    \/ \E w \in Workers : send_fails(w)

SpecResend == Init /\ [][NextResend]_vars /\ FairRetry

\* The retrying worker with callers that cancel tasks.
NextCancel ==
    \/ NextRetry
    \/ \E id \in TaskIds : tasks_cancel(id)

\* Callers can cancel without end, and in this model a step of the worker
\* waits for the response on its way: the fairness of the worker and of the
\* leases is strong.
FairCancel ==
    /\ \A w \in Workers : SF_vars(RetryStep(w))
    /\ SF_vars(\E i \in MsgIds : lease_expires(i))
    /\ WF_vars(client_reads)

SpecCancel == Init /\ [][NextCancel]_vars /\ FairCancel

\* Legacy submissions that all carry the task id "t1" as the caller's own,
\* with and without a target language.
SubmitSameId ==
    \E lang \in {None, "en"}, fault \in Faults :
        execute_task_legacy("object", "hello", "t1", lang, "t1", fault)

NextSameId ==
    \/ WorkerJob
    \/ SubmitSameId
    \/ client_reads

SpecSameId == Init /\ [][NextSameId]_vars

\* Two message/send requests side by side, in front of the worker.
NextRace ==
    \/ WorkerJob
    \/ \E r \in Requests : begin_message_send(r)
    \/ \E r \in Requests : get_queue_properties(r)
    \/ \E r \in Requests, o \in CreateOutcomes : create_queue(r, o)
    \/ \E r \in Requests : send_payload(r)

SpecRace == Init /\ [][NextRace]_vars

\* The status queries as functions of the result store: the store is a
\* container the gateway only reads (tasks_get provides for records it finds
\* in A2A format, which the worker never writes), so the records are drawn
\* from every status a record can carry.
StoredStatuses == {"completed", "failed", "working"}
StoredRecords(t) ==
    {NoBlob} \cup
    {[task_id |-> t, status |-> st,
      artifact_content |-> translate_text_with_azure("hello", "en")] :
        st \in StoredStatuses}

InitStore ==
    /\ jobsQueueExists = FALSE
    /\ msgs = <<>>
    /\ blobs \in {b \in [TaskIds -> UNION {StoredRecords(t) : t \in TaskIds}] :
                     \A t \in TaskIds : b[t] \in StoredRecords(t)}
    /\ results = EmptyBag
    /\ pc = [w \in Workers |-> IF w = "w1" THEN "start" ELSE "off"]
    /\ held = [w \in Workers |-> 0]
    /\ resp = NoResp
    /\ seen = [t \in TaskIds |-> None]
    /\ shown = [t \in TaskIds |-> None]
    /\ req = [r \in Requests |-> "idle"]

NextStore == Query \/ client_reads

SpecStore == InitStore /\ [][NextStore]_vars

\* The worker between the gateway, a producer of text that is no JSON, and
\* the status queries.
NextPoison ==
    \/ WorkerJob
    \/ SubmitA2A
    \/ \E c \in ForeignContents : ~c.json /\ foreign_send(c)
    \/ Query
    \/ client_reads

SpecPoison == Init /\ [][NextPoison]_vars

\* Two worker processes polling the same jobs queue.
InitWorkers ==
    /\ jobsQueueExists = FALSE
    /\ msgs = <<>>
    /\ blobs = [t \in TaskIds |-> NoBlob]
    /\ results = EmptyBag
    /\ pc = [w \in Workers |-> "start"]
    /\ held = [w \in Workers |-> 0]
    /\ resp = NoResp
    /\ seen = [t \in TaskIds |-> None]
    /\ shown = [t \in TaskIds |-> None]
    /\ req = [r \in Requests |-> "idle"]

NextWorkers ==
    \/ WorkerJob
    \/ SubmitA2A
    \/ client_reads

SpecWorkers == InitWorkers /\ [][NextWorkers]_vars

\* The worker process left running (no crash), with the gateway and a
\* producer of foreign contents in front of it.
WorkerLoop ==
    \/ \E w \in Workers, f \in StartFaults : start_worker(w, f)
    \/ \E w \in Workers, i \in MsgIds : receive_messages(w, i)
    \/ \E w \in Workers : poll_empty(w)
    \/ \E w \in Workers : receive_fails(w)
    \/ \E w \in Workers : wake(w)
    \/ \E w \in Workers : json_loads(w)
    \/ \E w \in Workers, o \in ProviderOutcomes : translate(w, o)
    \/ \E w \in Workers, ok \in BOOLEAN : upload_blob(w, ok)
    \/ \E w \in Workers, ok \in BOOLEAN : send_result(w, ok)
    \/ \E w \in Workers, ok \in BOOLEAN : delete_message(w, ok)
    \/ \E w \in Workers, ok \in BOOLEAN : delete_malformed(w, ok)
    \/ \E i \in MsgIds : lease_expires(i)

NextLoop ==
    \/ WorkerLoop
    \/ SubmitA2A
    \/ \E c \in ForeignContents : foreign_send(c)
    \/ client_reads

\* The sleep of the loop ends, the handler's delete returns or raises, and
\* the caller reads its response.
LoopStep(w) == wake(w) \/ \E ok \in BOOLEAN : delete_malformed(w, ok)

FairLoop ==
    /\ \A w \in Workers : WF_vars(LoopStep(w))
    /\ WF_vars(client_reads)

SpecLoop == Init /\ [][NextLoop]_vars /\ FairLoop

\* The two submission endpoints and a producer of foreign contents in front
\* of the worker process left running.
NextProducers ==
    \/ WorkerLoop
    \/ Submit
    \/ \E c \in ForeignContents : foreign_send(c)
    \/ client_reads

SpecProducers == Init /\ [][NextProducers]_vars

\* The whole gateway in front of the worker; the gateway alone fills the
\* jobs queue.
NextGateway ==
    \/ WorkerJob
    \/ Submit
    \/ Query
    \/ client_reads

SpecGateway == Init /\ [][NextGateway]_vars

\* The same with a caller that remembers what it was shown.
NextClient ==
    \/ WorkerJob
    \/ Submit
    \/ Query
    \/ client_records

SpecClient == Init /\ [][NextClient]_vars

\* ------------------------------------------------------------------ claims
WellFormed(i) == parse_task_data(msgs[i].content) = "ok"
HasRecord(t) == blobs[t] # NoBlob
\* A step of one of the two submission endpoints, and its accepting answers.
A2AStep == resp = NoResp /\ resp'.op = "message_send"
LegacyStep == resp = NoResp /\ resp'.op = "execute_task"
SubmitStep == A2AStep \/ LegacyStep
Accepted(r) == r.kind \in {"task", "http202"}

\* C1 (as claimed): a well-formed job's message is never deleted while the
\* result store holds no completed record for its task id, also when the
\* worker crashes between two steps.
C1_DeleteAfterResult ==
    \A i \in MsgIds :
        (msgs[i].st = "deleted" /\ WellFormed(i))
            => /\ HasRecord(msgs[i].content.task_id)
               /\ blobs[msgs[i].content.task_id].task_id = msgs[i].content.task_id
               /\ blobs[msgs[i].content.task_id].status = "completed"

\* C2 (as claimed): once the result store holds a record for a task id it
\* keeps one, and every status that tasks/get or GET /task_status reports for
\* that id from then on is "completed", never "working" or "pending".
C2_StatusMonotone ==
    [][\A t \in TaskIds, f \in ReadFaults :
          HasRecord(t) =>
             /\ blobs'[t] # NoBlob
             /\ ((tasks_get(t, f) \/ get_task_status_legacy(t, f))
                    /\ resp'.kind \in {"task", "http200"})
                   => resp'.state = "completed"
      ]_vars

\* C3: on every reachable result store, for every task id and every outcome
\* of the read, tasks/get says "completed" exactly when GET /task_status says
\* "completed".
C3_ViewsAgree ==
    \A t \in TaskIds, f \in ReadFaults :
        (tasks_get_view(blobs, t, f).state = "completed")
            <=> (legacy_status_view(blobs, t, f).status = "completed")

C3_Witness ==
    \E t \in TaskIds :
        /\ HasRecord(t)
        /\ tasks_get_view(blobs, t, "none").state = "completed"
        /\ legacy_status_view(blobs, t, "none").status = "completed"
        /\ tasks_get_view(blobs, t, "download").state = "working"
        /\ legacy_status_view(blobs, t, "download").status = "pending"

\* C4 (as claimed): once a caller has been shown a terminal state for a task
\* id, every later Task for that id carries the same state.
C4_TerminalIsFinal ==
    (resp.kind = "task" /\ seen[resp.id] # None) => resp.state = seen[resp.id]

\* C5: a submission whose enqueue fails is answered with an error (HTTP 500 on
\* the legacy endpoint) and no Task, and leaves the jobs queue's messages and
\* the result store as they were.
C5_EnqueueFailure ==
    [][ /\ A2AStep => \A c \in A2ACalls :
              (c.fault # "none" /\ message_send(c.text, c.lang, c.uuid, c.fault))
                 => /\ resp'.kind = "error"
                    /\ resp'.id = None
                    /\ msgs' = msgs
                    /\ blobs' = blobs
        /\ LegacyStep => \A c \in LegacyCalls :
              (c.fault # "none"
                  /\ execute_task_legacy(c.shape, c.doc, c.sid, c.lang, c.uuid, c.fault))
                 => /\ resp'.kind = "http500"
                    /\ resp'.id = None
                    /\ msgs' = msgs
                    /\ blobs' = blobs
      ]_vars

C5_Witness == resp.error = "queue" /\ resp.kind \in {"error", "http500"}

\* C6: a submission that is accepted (a Task or a 202 comes back) puts exactly
\* one message on the jobs queue, carrying the returned task id, and a
\* submission that is rejected puts none; so the messages the gateway has
\* enqueued are as many as the submissions it has accepted.
C6_OneEnqueuePerAccepted ==
    [][SubmitStep =>
          IF Accepted(resp')
          THEN /\ Len(msgs') = Len(msgs) + 1
               /\ SubSeq(msgs', 1, Len(msgs)) = msgs
               /\ msgs'[Len(msgs')].content.task_id = resp'.id
          ELSE msgs' = msgs
      ]_vars

C6_Witness ==
    /\ resp.op \in {"message_send", "execute_task"}
    /\ Accepted(resp)
    /\ Len(msgs) = 2
    /\ \A i \in MsgIds : WellFormed(i)

\* C7 (as claimed): a submission without text is rejected with a validation
\* error, HTTP 400 on the legacy endpoint, and changes neither the jobs queue
\* nor the result store.
C7_MissingTextRejected ==
    [][ /\ A2AStep => \A c \in A2ACalls :
              (Falsy(c.text) /\ message_send(c.text, c.lang, c.uuid, c.fault))
                 => /\ resp'.kind = "error"
                    /\ UNCHANGED <<jobsQueueExists, msgs, blobs>>
        /\ LegacyStep => \A c \in LegacyCalls :
              (Falsy(c.doc)
                  /\ execute_task_legacy(c.shape, c.doc, c.sid, c.lang, c.uuid, c.fault))
                 => /\ resp'.kind = "http400"
                    /\ UNCHANGED <<jobsQueueExists, msgs, blobs>>
      ]_vars

\* C8: a valid submission whose enqueue succeeds is answered with a Task in
\* state working (status "pending", the legacy name of that state, on the
\* legacy endpoint); a Task is returned only with its job on the queue, and
\* it carries the uuid just drawn or the task id the caller supplied.
C8_ReturnedTask ==
    [][ /\ A2AStep => \A c \in A2ACalls :
              message_send(c.text, c.lang, c.uuid, c.fault)
                 => /\ (~Falsy(c.text) /\ c.fault = "none") => resp'.kind = "task"
                    /\ resp'.kind = "task"
                          => /\ resp'.state = "working"
                             /\ resp'.id = c.uuid
                             /\ FreshId(c.uuid)
                             /\ Len(msgs') = Len(msgs) + 1
                             /\ msgs'[Len(msgs')].content.task_id = c.uuid
        /\ LegacyStep => \A c \in LegacyCalls :
              execute_task_legacy(c.shape, c.doc, c.sid, c.lang, c.uuid, c.fault)
                 => /\ (c.shape = "object" /\ ~Falsy(c.doc) /\ c.fault = "none")
                          => resp'.kind = "http202"
                    /\ resp'.kind = "http202"
                          => /\ resp'.state = "pending"
                             /\ resp'.id = IF c.sid = None THEN c.uuid ELSE c.sid
                             /\ c.sid = None => FreshId(c.uuid)
                             /\ Len(msgs') = Len(msgs) + 1
                             /\ msgs'[Len(msgs')].content.task_id = resp'.id
      ]_vars

C8_Witness ==
    /\ resp.op = "message_send"
    /\ resp.kind = "task"
    /\ resp.state = "working"
    /\ \E i \in MsgIds : msgs[i].content.task_id = resp.id /\ msgs[i].dq = 0

\* C9 (as claimed): when the worker has handled a message whose payload lacks
\* task_id or document_content, the message is deleted from the jobs queue.
C9_PoisonDeleted ==
    [][\A w \in Workers :
          (json_loads(w) /\ parse_task_data(msgs[held[w]].content) = "key_error")
             => msgs'[held[w]].st = "deleted"
      ]_vars

\* C10 (as claimed): when the provider call fails for a well-formed job, the
\* worker writes nothing and does not delete the message: the step of the
\* failure leaves the jobs queue, the result store and the results queue as
\* they were, and no step of the worker on that message deletes it.
C10_ProviderFailure ==
    [][\A w \in Workers :
          /\ \A o \in ProviderOutcomes \ {"ok"} :
                translate(w, o) => /\ msgs' = msgs
                                   /\ blobs' = blobs
                                   /\ results' = results
          /\ (pc[w] = "delete_malformed" /\ WellFormed(held[w]))
                => \A ok \in BOOLEAN :
                      delete_malformed(w, ok) => msgs'[held[w]].st # "deleted"
      ]_vars

\* C11: under fair scheduling of the worker and of lease expiry, a well-formed
\* job that was handed out and dropped because the provider call failed is
\* handed out again, and once the provider call succeeds its Result Record is
\* written and its message is deleted.
Dropped(i) ==
    /\ InQueue(i)
    /\ WellFormed(i)
    /\ msgs[i].dq >= 1
    /\ \A w \in Workers : held[w] # i

Done(i) ==
    /\ i \in MsgIds
    /\ msgs[i].st = "deleted"
    /\ HasRecord(msgs[i].content.task_id)
    /\ blobs[msgs[i].content.task_id].status = "completed"

C11_RetryLiveness == \A i \in 1..MaxMsgs : Dropped(i) ~> Done(i)

C11_Witness == \E i \in MsgIds : Done(i) /\ msgs[i].dq >= 2

\* The lease of message i ran out before the message was deleted.
Expired(i) == Visible(i) /\ msgs[i].dq >= 1

C13_CancelNoEffect ==
    /\ [][\A id \in TaskIds :
             tasks_cancel(id)
                => /\ resp'.kind = "task"
                   /\ resp'.id = id
                   /\ resp'.state = "cancelled"
                   /\ UNCHANGED <<jobsQueueExists, msgs, blobs, results, pc, held>>
        ]_vars
    /\ \A i \in 1..MaxMsgs :
          (/\ resp.op = "tasks_cancel"
           /\ InQueue(i)
           /\ WellFormed(i)
           /\ msgs[i].content.task_id = resp.id)
             ~> Done(i)

C13_Witness ==
    /\ resp.op = "tasks_cancel"
    /\ resp.state = "cancelled"
    /\ \E i \in MsgIds :
          /\ msgs[i].content.task_id = resp.id
          /\ msgs[i].st = "leased"
          /\ \E w \in Workers : held[w] = i /\ pc[w] = "translate"

\* C14 (as claimed): every Task that tasks/get or tasks/cancel returns for a
\* task id carries the contextId of the Task message/send returned for it.
C14_ContextIdStable ==
    (/\ resp.kind = "task"
     /\ resp.op \in {"tasks_get", "tasks_cancel"}
     /\ shown[resp.id] # None)
        => resp.context = shown[resp.id]

\* The terminal fields of the two views of a task: the state and the text.
A2AFields(store, t, f) ==
    LET task == tasks_get_view(store, t, f) IN <<task.state, task.artifacts>>
LegacyFields(store, t, f) ==
    LET v == legacy_status_view(store, t, f) IN <<v.status, v.artifact_content>>

Processed(i) ==
    /\ i \in MsgIds
    /\ msgs[i].st = "deleted"
    /\ BagIn(result_payload(msgs[i].content), results)

\* C16: the result store holds at most one record per task id, and every
\* write of the worker puts its own result under the task id of its job in
\* place of what was there; so after two jobs with the same task id the record
\* is that of the write that came last.
C16_LastWriteWins ==
    [][ /\ \A w \in Workers :
              upload_blob(w, TRUE)
                 => LET r == result_payload(msgs[held[w]].content) IN
                    blobs' = [blobs EXCEPT ![r.task_id] = r]
        /\ blobs' # blobs => \E w \in Workers : upload_blob(w, TRUE)
        /\ DOMAIN blobs' = TaskIds
      ]_vars

C16_Witness ==
    \E i, j \in MsgIds :
        /\ i # j
        /\ msgs[i].content.task_id = msgs[j].content.task_id
        /\ msgs[i].content # msgs[j].content
        /\ Processed(i)
        /\ Processed(j)
        /\ blobs[msgs[i].content.task_id] = result_payload(msgs[j].content)

\* C17 (as claimed): of two message/send requests handled at the same time
\* while the jobs queue is not there (no worker has created it), neither
\* fails in ensure_queue_exists because the other created the queue first,
\* and each one that is through has its payload on the queue.
C17_CreationRaceFree ==
    (\A w \in Workers : pc[w] \in {"off", "start", "stopped"}) =>
        \A r \in Requests :
            /\ req[r] # "failed"
            /\ req[r] = "accepted"
                  => \E i \in MsgIds : msgs[i].content.task_id = task_id_of(r)

C19_ArtifactsOnlyWhenCompleted ==
    /\ resp.kind = "task" /\ resp.op \in {"message_send", "tasks_get", "tasks_cancel"}
          => /\ resp.artifacts # <<>> => resp.state = "completed"
             /\ resp.op = "tasks_get" /\ resp.state = "completed"
                   => /\ blobs[resp.id] # NoBlob
                      /\ resp.artifacts = <<blobs[resp.id].artifact_content>>
    /\ \A id \in TaskIds, f \in ReadFaults \ {"client"} :
          LET task == tasks_get_view(blobs, id, f) IN
          /\ task.artifacts # <<>> => task.state = "completed"
          /\ task.state = "completed"
                => /\ Len(task.artifacts) = 1
                   /\ task.artifacts[1] = blobs[id].artifact_content

\* tasks/get has returned a completed Task with the artifact of the record the
\* worker wrote.
C19_Witness ==
    /\ resp.op = "tasks_get" /\ resp.kind = "task" /\ resp.state = "completed"
    /\ resp.artifacts =
          <<result_payload(task_payload(resp.id, "hello", "en")).artifact_content>>
    /\ blobs[resp.id] = result_payload(task_payload(resp.id, "hello", "en"))

\* The messages of the jobs queue, past and present, that decode to a job of
\* task id.
JobsOf(id) ==
    {i \in MsgIds : parse_task_data(msgs[i].content) = "ok"
                       /\ msgs[i].content.task_id = id}

\* C20: a leased message whose content is no JSON goes straight to the delete
\* of the JSONDecodeError handler, which takes it off the queue; neither step
\* writes a Result Record or sends to the results queue; and a task id that
\* has no decodable job is answered working by tasks/get and pending by
\* /task_status, at every moment.
C20_MalformedDeleted ==
    /\ [][\A w \in Workers :
            /\ (json_loads(w) /\ parse_task_data(msgs[held[w]].content) = "decode_error")
                  => /\ pc'[w] = "delete_malformed"
                     /\ held'[w] = held[w]
                     /\ blobs' = blobs /\ results' = results
            /\ (delete_malformed(w, TRUE) /\ ReceiptValid(w, held[w])
                  /\ parse_task_data(msgs[held[w]].content) = "decode_error")
                  => /\ msgs'[held[w]].st = "deleted"
                     /\ blobs' = blobs /\ results' = results
       ]_vars
    /\ [](\A id \in TaskIds :
            JobsOf(id) = {}
               => /\ blobs[id] = NoBlob
                  /\ \A f \in ReadFaults \ {"client"} :
                        /\ tasks_get_view(blobs, id, f).state = "working"
                        /\ legacy_status_view(blobs, id, f).status = "pending"
                  /\ (resp.id = id /\ resp.op = "tasks_get" /\ resp.kind = "task")
                        => resp.state = "working"
                  /\ (resp.id = id /\ resp.op = "task_status" /\ resp.kind = "http200")
                        => resp.state = "pending")

\* An undecodable message has been leased and deleted, nothing was written,
\* and a status query is being answered.
C20_Witness ==
    /\ \E i \in MsgIds : ~msgs[i].content.json /\ msgs[i].st = "deleted" /\ msgs[i].dq = 1
    /\ \A id \in TaskIds : blobs[id] = NoBlob
    /\ results = EmptyBag
    /\ resp.op \in {"tasks_get", "task_status"} /\ resp.state \in {"working", "pending"}

\* The positions of process_queue_message: the worker has a message in hand.
Processing == {"parse", "translate", "upload", "send_result", "delete",
               "delete_malformed"}

\* C21: a worker has a message in hand exactly while it is inside
\* process_queue_message; a receive happens only with no message in hand and
\* leases exactly one message, the one the worker then processes; and a
\* worker leaves the message in hand only by resolving or abandoning it,
\* never by taking up another.
C21_OneMessageAtATime ==
    /\ [](\A w \in Workers : (held[w] \in MsgIds) <=> (pc[w] \in Processing))
    /\ [](\A w \in Workers : held[w] # 0 => msgs[held[w]].dq > 0)
    /\ [][\A w \in Workers :
            /\ (\E i \in MsgIds : receive_messages(w, i))
                  => /\ held[w] = 0
                     /\ {i \in MsgIds : msgs'[i] # msgs[i]} = {held'[w]}
                     /\ msgs'[held'[w]].dq = msgs[held'[w]].dq + 1
            /\ (held[w] # 0 /\ held'[w] # held[w]) => held'[w] = 0
       ]_vars

\* A worker abandoned one message after a provider failure and has leased the
\* next one while the first lease is still running.
C21_Witness ==
    \E w \in Workers, i, j \in MsgIds :
        /\ i # j
        /\ held[w] = j /\ pc[w] = "translate"
        /\ msgs[i].st = "leased" /\ msgs[i].holder = w

\* The positions of the processing loop of start_worker.
LoopPositions == Processing \cup {"poll", "sleep"}

\* The steps in which a per-message error or a receive failure shows.
ErrorStep(w) ==
    \/ json_loads(w) /\ parse_task_data(msgs[held[w]].content) # "ok"
    \/ \E o \in ProviderOutcomes \ {"ok"} : translate(w, o)
    \/ upload_blob(w, FALSE)
    \/ send_result(w, FALSE)
    \/ delete_message(w, FALSE)
    \/ delete_malformed(w, FALSE)
    \/ receive_fails(w)

\* C22: once a worker is in its loop it stays in it; an undecodable payload,
\* a missing field, a provider failure, a failed record write, a failed
\* results-queue send, a failed delete and a failed receive each leave the
\* worker at the next poll, at the sleep before it, or at the delete of the
\* JSONDecodeError handler, and from the last two it comes to poll again.
C22_LoopNeverStops ==
    /\ [][\A w \in Workers :
            /\ pc[w] \in LoopPositions => pc'[w] \in LoopPositions
            /\ ErrorStep(w) => pc'[w] \in {"poll", "sleep", "delete_malformed"}
       ]_vars
    /\ \A w \in Workers :
          (pc[w] \in {"sleep", "delete_malformed"}) ~> (pc[w] = "poll")

\* The worker is polling again with no message in hand, while the message it
\* leased and failed on is still under its lease and nothing was written.
C22_Witness ==
    /\ pc["w1"] = "poll" /\ held["w1"] = 0
    /\ \E i \in MsgIds : msgs[i].st = "leased" /\ msgs[i].dq = 1
    /\ \A t \in TaskIds : blobs[t] = NoBlob

\* C23 (as claimed): start_worker returns before its loop exactly when
\* ensuring the jobs queue failed; with every other startup problem the
\* worker goes on to poll.
C23_OnlyQueueFailureIsFatal ==
    [][\A w \in Workers, f \in StartFaults :
          start_worker(w, f) =>
              /\ pc'[w] \in {"stopped", "poll"}
              /\ pc'[w] = "stopped" <=> f = "create_queue"
      ]_vars

\* A handler of the gateway answers: a response is put on its way.
GatewayStep == resp = NoResp /\ resp' # NoResp
StatusOps == {"tasks_get", "tasks_cancel", "task_status"}

\* C24: the result store changes only in a successful upload_blob of a
\* worker; a step of any gateway handler leaves the store as it was, and a
\* step of tasks/get, tasks/cancel or GET /task_status also leaves the jobs
\* queue as it was.
C24_WorkerSoleWriter ==
    [][/\ blobs' # blobs => \E w \in Workers : upload_blob(w, TRUE)
       /\ GatewayStep => blobs' = blobs
       /\ (GatewayStep /\ resp'.op \in StatusOps)
             => msgs' = msgs /\ jobsQueueExists' = jobsQueueExists
      ]_vars

\* tasks/cancel has answered for a task that has its record in the store
\* while a message is on the jobs queue.
C24_Witness ==
    /\ resp.op = "tasks_cancel" /\ resp.kind = "task"
    /\ blobs[resp.id] = result_payload(task_payload(resp.id, "hello", "en"))
    /\ \E i \in MsgIds : InQueue(i)

\* C25: a status query for a task id that has no record in the store, made
\* with a working blob client, is answered and not failed: tasks/get returns
\* a Task of that id in state working with no artifacts, GET /task_status
\* returns HTTP 200 with status pending, whatever the download does.
C25_NoRecordIsPending ==
    [][GatewayStep =>
          \A id \in TaskIds, f \in ReadFaults \ {"client"} :
              blobs[id] = NoBlob =>
                  /\ tasks_get(id, f)
                        => /\ resp'.kind = "task" /\ resp'.id = id
                           /\ resp'.state = "working" /\ resp'.artifacts = <<>>
                  /\ get_task_status_legacy(id, f)
                        => /\ resp'.kind = "http200" /\ resp'.id = id
                           /\ resp'.state = "pending"
      ]_vars

\* tasks/get has answered working for a task id that was never submitted,
\* while another task has its record.
C25_Witness ==
    /\ resp.op = "tasks_get" /\ resp.kind = "task" /\ resp.state = "working"
    /\ \A i \in MsgIds : msgs[i].content.task_id # resp.id
    /\ blobs[resp.id] = NoBlob
    /\ \E t \in TaskIds : blobs[t] # NoBlob

\* C26 (as claimed): with two workers polling the same jobs queue, no two
\* workers are inside process_queue_message with the same message at the
\* same time.
C26_LeaseSerializes ==
    \A w \in Workers, v \in Workers :
        (w # v /\ held[w] # 0) => held[w] # held[v]

\* The task of the job a worker has in hand already has its record.
Reprocessing(w) ==
    /\ held[w] # 0
    /\ parse_task_data(msgs[held[w]].content) = "ok"
    /\ blobs[msgs[held[w]].content.task_id] # NoBlob

\* C27: a job whose task already has its record is parsed and handed to the
\* provider like any other; a successful write puts the new result in place
\* of the old record; and no step takes a record out of the store, so the
\* task has a record all through the reprocessing.
C27_NoIdempotenceCheck ==
    [][/\ \A w \in Workers :
            /\ (Reprocessing(w) /\ json_loads(w)) => pc'[w] = "translate"
            /\ (Reprocessing(w) /\ translate(w, "ok")) => pc'[w] = "upload"
            /\ (Reprocessing(w) /\ upload_blob(w, TRUE))
                  => blobs'[msgs[held[w]].content.task_id]
                        = result_payload(msgs[held[w]].content)
       /\ \A t \in TaskIds : blobs[t] # NoBlob => blobs'[t] # NoBlob
      ]_vars

\* A redelivered job of a task that had its record has been through the
\* provider and the write a second time.
C27_Witness ==
    \E w \in Workers :
        /\ pc[w] = "send_result"
        /\ msgs[held[w]].dq = 2
        /\ \E r \in BagToSet(results) : r.task_id = msgs[held[w]].content.task_id
        /\ blobs[msgs[held[w]].content.task_id] = result_payload(msgs[held[w]].content)

\* Message i was handed out, the record of its task is written, and the
\* message is on the queue with no worker processing it.
LeftAfterWrite(i) ==
    /\ InQueue(i)
    /\ WellFormed(i)
    /\ msgs[i].dq >= 1
    /\ \A w \in Workers : held[w] # i
    /\ HasRecord(msgs[i].content.task_id)

\* C28: a worker is at the delete of the success path only with the record
\* of its job written and the same result on the results queue; a failed
\* send to the results queue leaves the message on the jobs queue and the
\* record in the store, so that both status views say completed; and under
\* fair scheduling of the worker and of lease expiry the message left behind
\* is handed out again.
C28_DeleteAfterBoth ==
    /\ [](\A w \in Workers :
            pc[w] = "delete"
               => /\ blobs[msgs[held[w]].content.task_id]
                        = result_payload(msgs[held[w]].content)
                  /\ BagIn(result_payload(msgs[held[w]].content), results))
    /\ [][\A w \in Workers :
            send_result(w, FALSE)
               => /\ msgs' = msgs
                  /\ InQueue(held[w])
                  /\ blobs' = blobs
                  /\ tasks_get_view(blobs', msgs[held[w]].content.task_id, "none").state
                        = "completed"
                  /\ legacy_status_view(blobs', msgs[held[w]].content.task_id, "none").status
                        = "completed"
       ]_vars
    /\ \A i \in 1..MaxMsgs :
          LeftAfterWrite(i) ~> (\E w \in Workers : held[w] = i)

\* A job is in a worker's hands for the second time with its record in the
\* store and nothing on the results queue: the first send failed.
C28_Witness ==
    \E w \in Workers :
        /\ held[w] # 0
        /\ msgs[held[w]].dq = 2
        /\ HasRecord(msgs[held[w]].content.task_id)
        /\ results = EmptyBag

\* C29 (as claimed): no status query for a task whose record the worker
\* wrote is answered with state failed, through either protocol.
C29_NoFailedAnswer ==
    [][GatewayStep =>
          \A t \in TaskIds, f \in ReadFaults :
              HasRecord(t) =>
                  /\ tasks_get(t, f) => resp'.state # "failed"
                  /\ get_task_status_legacy(t, f) => resp'.state # "failed"
      ]_vars

\* C29 (amended): every record in the store has status completed, and no
\* status view the gateway derives from the store (a Task of tasks/get, an
\* HTTP 200 body of GET /task_status) says failed, in flight or for any task
\* id under any outcome of the download.
C29_NeverFailed ==
    /\ \A t \in TaskIds : HasRecord(t) => blobs[t].status = "completed"
    /\ (resp.op = "tasks_get" /\ resp.kind = "task") => resp.state # "failed"
    /\ (resp.op = "task_status" /\ resp.kind = "http200") => resp.state # "failed"
    /\ \A t \in TaskIds, f \in ReadFaults \ {"client"} :
          /\ tasks_get_view(blobs, t, f).state # "failed"
          /\ legacy_status_view(blobs, t, f).status # "failed"

\* Both tasks have their records and GET /task_status has answered for one
\* of them.
C29_Witness ==
    /\ \A t \in TaskIds : HasRecord(t)
    /\ resp.op = "task_status" /\ resp.kind = "http200" /\ resp.state = "completed"

\* C30: an accepted submission puts one message on the jobs queue, whose
\* payload carries the task id the caller is given; a successful write of the
\* worker stores the result of its job under the task_id of that job's
\* payload; so the record a status query finds under an id is the result of a
\* job that was enqueued with that id, and the query answers with it.
C30_SameIdEndToEnd ==
    /\ [][(SubmitStep /\ Accepted(resp'))
             => /\ Len(msgs') = Len(msgs) + 1
                /\ msgs'[Len(msgs')].content.task_id = resp'.id
                /\ \A i \in MsgIds : msgs'[i] = msgs[i]
       ]_vars
    /\ [][\A w \in Workers :
             upload_blob(w, TRUE)
                => /\ blobs'[msgs[held[w]].content.task_id]
                         = result_payload(msgs[held[w]].content)
                   /\ \A t \in TaskIds :
                         t # msgs[held[w]].content.task_id => blobs'[t] = blobs[t]
       ]_vars
    /\ [](\A t \in TaskIds :
             HasRecord(t)
                => /\ blobs[t].task_id = t
                   /\ \E i \in MsgIds :
                         /\ msgs[i].content.task_id = t
                         /\ blobs[t] = result_payload(msgs[i].content)
                   /\ tasks_get_view(blobs, t, "none").artifacts
                         = <<blobs[t].artifact_content>>
                   /\ legacy_status_view(blobs, t, "none").artifact_content
                         = blobs[t].artifact_content)

\* Two submissions were accepted under different ids, both jobs are done, and
\* tasks/get answers for one of them with the result of its own job.
C30_Witness ==
    /\ resp.op = "tasks_get" /\ resp.kind = "task" /\ resp.state = "completed"
    /\ \A t \in TaskIds : HasRecord(t) /\ blobs[t].task_id = t
    /\ \A i \in MsgIds : msgs[i].st = "deleted"
    /\ Len(msgs) = 2 /\ msgs[1].content.task_id # msgs[2].content.task_id

\* The task ids of the jobs the gateway has put on the jobs queue, whether
\* the message is still there or not.
EnqueuedIds == {msgs[i].content.task_id : i \in {j \in MsgIds : WellFormed(j)}}

\* C31: every task id that has a record is the task id of a job payload on
\* the jobs queue's history; every such payload was put there by a step of
\* a submission endpoint that accepted and answered with that id; and a step
\* that changes the record of an id is a step of a worker holding a job with
\* that id.
C31_RecordsSubsetOfEnqueued ==
    /\ []({t \in TaskIds : HasRecord(t)} \subseteq EnqueuedIds)
    /\ [][Len(msgs') > Len(msgs) /\ parse_task_data(msgs'[Len(msgs')].content) = "ok"
             => /\ SubmitStep /\ Accepted(resp')
                /\ resp'.id = msgs'[Len(msgs')].content.task_id
       ]_vars
    /\ [][\A t \in TaskIds :
             blobs'[t] # blobs[t]
                => \E w \in Workers :
                      /\ held[w] \in MsgIds
                      /\ WellFormed(held[w])
                      /\ msgs[held[w]].content.task_id = t
       ]_vars

\* One task has its record; the other id was named only by a payload lacking
\* document_content, which the worker took and left, and has no record.
C31_Witness ==
    \E t \in TaskIds, u \in TaskIds :
        /\ HasRecord(t) /\ ~HasRecord(u)
        /\ EnqueuedIds = {t}
        /\ \E i \in MsgIds :
              /\ ~WellFormed(i) /\ msgs[i].content.task_id = u /\ msgs[i].dq >= 1

====
